---- MODULE Spec2Model ----
(***************************************************************************)
(* Model of price_tracker.py: main() as a sequential process over the      *)
(* tracked products, the two durable JSON documents, the in-memory staging *)
(* maps, and the embeds handed to the Discord webhook.                     *)
(*                                                                         *)
(* Prices are integers.  pct() is kept as an exact fraction; for integer   *)
(* prices below 60 the float comparison of line 209 orders and ties        *)
(* exactly as the fractions do.  Currency, links, titles and the rendered  *)
(* text lines do not influence control flow or stored prices and are left  *)
(* out of the records.                                                     *)
(***************************************************************************)
EXTENDS Integers, Sequences, FiniteSets, TLC

VARIABLES
    pc,            \* position of main(): idle, process, save_history, ...
    args,          \* parsed command line of the current run
    runs,          \* number of runs started so far
    prevFile,      \* durable previous_prices.json
    histFile,      \* durable price_history.json
    prev_all,      \* in-memory previous snapshot   (asin -> market -> price)
    history,       \* in-memory history             (asin -> market -> points)
    idx,           \* index of the next product of the `for p in products` loop
    infos,         \* prices fetched in this run, per processed product
    changed,       \* the `changed` flag computed for each processed product
    updates,       \* the `updates` list
    sendIdx,       \* index of the next update of the per-product send loop
    sent,          \* embeds handed to send_discord_embed in this run
    error,         \* exception that ended the run, "" when none
    startPrevFile, \* previous_prices.json as it was when the run started
    startHistFile, \* price_history.json as it was when the run started
    observed,      \* every present price fetched so far, per (asin, market)
    ioFault,       \* some save_json call has raised so far
    undelivered,   \* products (with prices) whose change was never delivered
    s_pc,          \* summary specification: "input" or "output"
    s_prev,        \* summary specification: previous prices of one product
    s_cur,         \* summary specification: fetched prices of one product
    s_out          \* summary specification: results computed for s_prev, s_cur

runVars == <<pc, args, runs, prevFile, histFile, prev_all, history, idx, infos,
             changed, updates, sendIdx, sent, error, startPrevFile,
             startHistFile, observed, ioFault, undelivered>>
sumVars == <<s_pc, s_prev, s_cur, s_out>>
vars == <<runVars, sumVars>>

----------------------------------------------------------------------------
(* Bounds *)

MaxRuns == 2

MaxPrice == 4

----------------------------------------------------------------------------
(* Configuration of the program *)

None == -1

HISTORY_KEEP == 10

ColorDrop == 3066993

ColorNeutral == 9807270

ColorDigest == 15844367

MARKETS == <<"sa", "us", "uk">>

MarketSet == {MARKETS[i] : i \in 1..Len(MARKETS)}

PRODUCTS == <<"B0D9V6M5L8", "B0D2LM8NJK">>

ProductSet == {PRODUCTS[i] : i \in 1..Len(PRODUCTS)}

EmptyMap == <<>>

----------------------------------------------------------------------------
(* Pure helpers *)

\* load_json: a missing or unreadable document loads as the empty map.
load_json(file) == IF file.st = "valid" THEN file.data ELSE EmptyMap

\* What save_json leaves on disk: the object when it returns, the old
\* document when open() raises, a truncated document when the dump raises.
save_json(file, obj, outcome) ==
    CASE outcome = "ok"          -> [st |-> "valid", data |-> obj]
      [] outcome = "open_fails"  -> file
      [] outcome = "write_fails" -> [st |-> "corrupt", data |-> EmptyMap]

SaveOutcomes == {"ok", "open_fails", "write_fails"}

\* fetch_rainforest + pick_price_from_product for the three marketplaces of
\* one product: a price per market, None where the request failed or the
\* product carries no price.
AllAbsent == [mc \in MarketSet |-> None]

FetchResults ==
    { AllAbsent,
      [mc \in MarketSet |-> 1],
      [mc \in MarketSet |-> IF mc = "sa" THEN 2 ELSE 1],
      [mc \in MarketSet |-> IF mc = "sa" THEN None ELSE 1] }

\* prev_all.get(asin, {}) followed by .get(mc, {}).get("price")
PrevInfos(pa, asin) == IF asin \in DOMAIN pa THEN pa[asin] ELSE AllAbsent

\* The change test of one market.
ChangeTestAbsentCounts(prevp, curp) == prevp # curp
ChangeTest(prevp, curp) ==
    \/ prevp = None /\ curp # None
    \/ prevp # None /\ curp # None /\ prevp # curp

\* The detection loop over MARKETS.keys().
DetectChanged(inf, prev_infos) ==
    \E mc \in MarketSet : ChangeTest(prev_infos[mc], inf[mc])

\* pct(old, new) as the fraction <<numerator, denominator>>; NoPct is None.
NoPct == <<0, 0>>
pct(old, new) ==
    IF old = None \/ new = None THEN NoPct
    ELSE IF old = 0 THEN NoPct
    ELSE <<(new - old) * 100, old>>

\* a < b on two fractions with positive denominators
PctLess(a, b) == a[1] * b[2] < b[1] * a[2]

PctLessOrEqual(a, b) == a[1] * b[2] <= b[1] * a[2]

NoDrop == [pct |-> NoPct, mc |-> "none", prevp |-> None, curp |-> None]

NoCheapest == [price |-> None, mc |-> "none"]

\* One iteration of the loop of build_product_summary for market mc.
\* acc = [raised, biggest_drop, cheapest].
DropBeatsOnTie(change_pct, best) == best = NoDrop \/ PctLessOrEqual(change_pct, best.pct)
DropBeats(change_pct, best) == best = NoDrop \/ PctLess(change_pct, best.pct)

SummaryStep(acc, mc, curp, prevp) ==
    LET change_pct == IF prevp # None /\ curp # None /\ prevp # curp
                      THEN pct(prevp, curp) ELSE NoPct
    IN  IF acc.raised THEN acc
        ELSE IF prevp # None /\ curp = None
        THEN [acc EXCEPT !.raised = TRUE]
        ELSE [raised |-> FALSE,
              cheapest |->
                  IF curp # None /\ (acc.cheapest = NoCheapest \/ curp < acc.cheapest.price)
                  THEN [price |-> curp, mc |-> mc] ELSE acc.cheapest,
              biggest_drop |->
                  IF change_pct # NoPct /\ curp < prevp /\ DropBeats(change_pct, acc.biggest_drop)
                  THEN [pct |-> change_pct, mc |-> mc, prevp |-> prevp, curp |-> curp]
                  ELSE acc.biggest_drop]

RECURSIVE SummaryLoop(_, _, _, _)
SummaryLoop(acc, i, inf, prev_infos) ==
    IF i > Len(MARKETS) THEN acc
    ELSE SummaryLoop(SummaryStep(acc, MARKETS[i], inf[MARKETS[i]], prev_infos[MARKETS[i]]),
                     i + 1, inf, prev_infos)

build_product_summary(inf, prev_infos) ==
    SummaryLoop([raised |-> FALSE, biggest_drop |-> NoDrop, cheapest |-> NoCheapest],
                1, inf, prev_infos)

\* The history update of one market: append a present price, keep the last
\* HISTORY_KEEP points.
LastN(s, n) == IF Len(s) > n THEN SubSeq(s, Len(s) - n + 1, Len(s)) ELSE s

AppendHistory(h, curp, ts) ==
    IF curp # None THEN LastN(Append(h, [t |-> ts, p |-> curp]), HISTORY_KEEP) ELSE h

\* history.setdefault(asin, {}) and the loop over the markets.
MapPut(m, k, v) == [x \in DOMAIN m \cup {k} |-> IF x = k THEN v ELSE m[x]]

HistEntry(h, asin) ==
    IF asin \in DOMAIN h THEN h[asin] ELSE [mc \in MarketSet |-> <<>>]

UpdateHistory(h, asin, inf, ts) ==
    MapPut(h, asin, [mc \in MarketSet |-> AppendHistory(HistEntry(h, asin)[mc], inf[mc], ts)])

\* prev_all[asin] = {mc: {"price": ...}}
StageSnapshotForgotten(pa, asin, inf) == pa
StageSnapshot(pa, asin, inf) == MapPut(pa, asin, inf)

\* updates.append(...) if changed
CollectUpdateAlways(ups, asin, chg, summary) ==
    Append(ups, [asin |-> asin, biggest_drop |-> summary.biggest_drop,
                 cheapest |-> summary.cheapest])
CollectUpdate(ups, asin, chg, summary) ==
    IF chg THEN Append(ups, [asin |-> asin, biggest_drop |-> summary.biggest_drop,
                             cheapest |-> summary.cheapest])
    ELSE ups

\* "color" of the per-product embed and of the digest embed
ProductEmbedColorInverted(biggest_drop) ==
    IF biggest_drop # NoDrop THEN ColorNeutral ELSE ColorDrop
ProductEmbedColor(biggest_drop) ==
    IF biggest_drop # NoDrop THEN ColorDrop ELSE ColorNeutral

DigestEmbedColor == ColorDigest

----------------------------------------------------------------------------
(* main(): one run after another *)

ValidFile(obj) == [st |-> "valid", data |-> obj]

MissingFile == [st |-> "missing", data |-> EmptyMap]

Pairs == ProductSet \X MarketSet

\* The products whose embed of the run that just ended was not delivered
\* (send_discord_embed returned False).
FailedItems ==
    UNION { {sent[i].items[j] : j \in 1..Len(sent[i].items)} :
            i \in {k \in 1..Len(sent) : ~sent[k].ok /\ sent[k].kind # "test"} }

\* The products with a change that was never delivered and whose prices
\* have not moved since, after the run that just ended.
StillUndelivered ==
    FailedItems \cup {a \in DOMAIN undelivered : a \in DOMAIN infos /\ infos[a] = undelivered[a]}

Init ==
    /\ pc = "idle"
    /\ args = [test |-> FALSE, digest |-> FALSE]
    /\ runs = 0
    /\ prevFile = MissingFile
    /\ histFile = MissingFile
    /\ prev_all = EmptyMap
    /\ history = EmptyMap
    /\ idx = 1
    /\ infos = EmptyMap
    /\ changed = EmptyMap
    /\ updates = <<>>
    /\ sendIdx = 1
    /\ sent = <<>>
    /\ error = ""
    /\ startPrevFile = MissingFile
    /\ startHistFile = MissingFile
    /\ observed = [pr \in Pairs |-> <<>>]
    /\ ioFault = FALSE
    /\ undelivered = EmptyMap
    /\ s_pc = "off"
    /\ s_prev = AllAbsent
    /\ s_cur = AllAbsent
    /\ s_out = <<>>

BetweenRuns == pc \in {"idle", "done", "aborted", "exit1"}

\* Lines 236-238: a missing credential or webhook ends the process with
\* status 1 before anything is loaded or fetched.
ConfigError ==
    /\ BetweenRuns
    /\ runs < MaxRuns
    /\ runs' = runs + 1
    /\ pc' = "exit1"
    /\ args' = [test |-> FALSE, digest |-> FALSE]
    /\ infos' = EmptyMap
    /\ changed' = EmptyMap
    /\ updates' = <<>>
    /\ sendIdx' = 1
    /\ sent' = <<>>
    /\ error' = "ConfigurationError"
    /\ startPrevFile' = prevFile
    /\ startHistFile' = histFile
    /\ undelivered' = EmptyMap
    /\ UNCHANGED <<prevFile, histFile, prev_all, history, idx, observed, ioFault, sumVars>>

\* Lines 230-262 with valid configuration: parse the arguments, load the
\* product list and both documents, start with no updates.
StartRun ==
    /\ BetweenRuns
    /\ runs < MaxRuns
    /\ runs' = runs + 1
    /\ \E t \in BOOLEAN, d \in BOOLEAN :
          /\ args' = [test |-> t, digest |-> d]
          /\ pc' = IF t THEN "test" ELSE "process"
    /\ prev_all' = load_json(prevFile)
    /\ history' = load_json(histFile)
    /\ idx' = 1
    /\ infos' = EmptyMap
    /\ changed' = EmptyMap
    /\ updates' = <<>>
    /\ sendIdx' = 1
    /\ sent' = <<>>
    /\ error' = ""
    /\ startPrevFile' = prevFile
    /\ startHistFile' = histFile
    /\ undelivered' = IF pc = "done" /\ ~args.test
                      THEN [a \in StillUndelivered |-> infos[a]]
                      ELSE EmptyMap
    /\ UNCHANGED <<prevFile, histFile, observed, ioFault, sumVars>>

\* Lines 244-254: --test sends one fixed embed and returns.
SendTestEmbed ==
    /\ pc = "test"
    /\ \E ok \in BOOLEAN :
          sent' = Append(sent, [kind |-> "test", items |-> <<>>,
                                color |-> ColorDrop, ok |-> ok])
    /\ pc' = "done"
    /\ UNCHANGED <<args, runs, prevFile, histFile, prev_all, history, idx, infos,
                   changed, updates, sendIdx, error, startPrevFile, startHistFile,
                   observed, ioFault, undelivered, sumVars>>

\* Lines 264-327: one iteration of `for p in products`.  The three fetches
\* yield inf; the change flag, the history and the staged snapshot are
\* updated; build_product_summary then raises TypeError at line 189 when a
\* market has a stored previous price and no current price, which ends
\* main() with the documents unwritten.
ProcessProduct ==
    /\ pc = "process"
    /\ \E inf \in FetchResults :
          LET asin       == PRODUCTS[idx]
              prev_infos == PrevInfos(prev_all, asin)
              chg        == DetectChanged(inf, prev_infos)
              summary    == build_product_summary(inf, prev_infos)
          IN  /\ infos' = MapPut(infos, asin, inf)
              /\ changed' = MapPut(changed, asin, chg)
              /\ history' = UpdateHistory(history, asin, inf, runs)
              /\ prev_all' = StageSnapshot(prev_all, asin, inf)
              /\ observed' = [pr \in Pairs |->
                                IF pr[1] = asin /\ inf[pr[2]] # None
                                THEN Append(observed[pr], [t |-> runs, p |-> inf[pr[2]]])
                                ELSE observed[pr]]
              /\ IF summary.raised
                 THEN /\ pc' = "aborted"
                      /\ error' = "TypeError"
                      /\ UNCHANGED <<updates, idx>>
                 ELSE /\ updates' = CollectUpdate(updates, asin, chg, summary)
                      /\ idx' = idx + 1
                      /\ pc' = IF idx = Len(PRODUCTS) THEN "save_history" ELSE "process"
                      /\ UNCHANGED error
    /\ UNCHANGED <<args, runs, prevFile, histFile, sendIdx, sent, startPrevFile,
                   startHistFile, ioFault, undelivered, sumVars>>

\* Line 330: save_json(DATA_HISTORY, history); an exception leaves main().
SaveHistory ==
    /\ pc = "save_history"
    /\ \E outcome \in SaveOutcomes :
          /\ histFile' = save_json(histFile, history, outcome)
          /\ pc' = IF outcome = "ok" THEN "save_prev" ELSE "aborted"
          /\ error' = IF outcome = "ok" THEN error ELSE "OSError"
          /\ ioFault' = (ioFault \/ outcome # "ok")
    /\ UNCHANGED <<args, runs, prevFile, prev_all, history, idx, infos, changed,
                   updates, sendIdx, sent, startPrevFile, startHistFile, observed,
                   undelivered, sumVars>>

\* Lines 331-335: save_json(DATA_PREV, prev_all), then return when there is
\* nothing to send.
SavePrev ==
    /\ pc = "save_prev"
    /\ \E outcome \in SaveOutcomes :
          /\ prevFile' = save_json(prevFile, prev_all, outcome)
          /\ pc' = IF outcome # "ok" THEN "aborted"
                   ELSE IF updates = <<>> THEN "done" ELSE "send"
          /\ error' = IF outcome = "ok" THEN error ELSE "OSError"
          /\ ioFault' = (ioFault \/ outcome # "ok")
    /\ UNCHANGED <<args, runs, histFile, prev_all, history, idx, infos, changed,
                   updates, sendIdx, sent, startPrevFile, startHistFile, observed,
                   undelivered, sumVars>>

\* Lines 338-366: one embed with a field per update.
SendDigest ==
    /\ pc = "send"
    /\ args.digest
    /\ \E ok \in BOOLEAN :
          sent' = Append(sent, [kind |-> "digest",
                                items |-> [i \in 1..Len(updates) |-> updates[i].asin],
                                color |-> DigestEmbedColor, ok |-> ok])
    /\ pc' = "done"
    /\ UNCHANGED <<args, runs, prevFile, histFile, prev_all, history, idx, infos,
                   changed, updates, sendIdx, error, startPrevFile, startHistFile,
                   observed, ioFault, undelivered, sumVars>>

\* Lines 367-401: one iteration of the per-product send loop.
SendProduct ==
    /\ pc = "send"
    /\ ~args.digest
    /\ \E ok \in BOOLEAN :
          sent' = Append(sent, [kind |-> "product",
                                items |-> <<updates[sendIdx].asin>>,
                                color |-> ProductEmbedColor(updates[sendIdx].biggest_drop),
                                ok |-> ok])
    /\ sendIdx' = sendIdx + 1
    /\ pc' = IF sendIdx = Len(updates) THEN "done" ELSE "send"
    /\ UNCHANGED <<args, runs, prevFile, histFile, prev_all, history, idx, infos,
                   changed, updates, error, startPrevFile, startHistFile,
                   observed, ioFault, undelivered, sumVars>>

Next ==
    \/ ConfigError
    \/ StartRun
    \/ SendTestEmbed
    \/ ProcessProduct
    \/ SaveHistory
    \/ SavePrev
    \/ SendDigest
    \/ SendProduct

Spec == Init /\ [][Next]_vars

----------------------------------------------------------------------------
(* Change detection and aggregation of one product, for every combination  *)
(* of previous and fetched prices                                           *)

PriceOrNone == {None} \cup (0..MaxPrice)

SummaryInit ==
    /\ pc = "idle"
    /\ args = [test |-> FALSE, digest |-> FALSE]
    /\ runs = 0
    /\ prevFile = MissingFile
    /\ histFile = MissingFile
    /\ prev_all = EmptyMap
    /\ history = EmptyMap
    /\ idx = 1
    /\ infos = EmptyMap
    /\ changed = EmptyMap
    /\ updates = <<>>
    /\ sendIdx = 1
    /\ sent = <<>>
    /\ error = ""
    /\ startPrevFile = MissingFile
    /\ startHistFile = MissingFile
    /\ observed = [pr \in Pairs |-> <<>>]
    /\ ioFault = FALSE
    /\ undelivered = EmptyMap
    /\ s_pc = "input"
    /\ s_prev \in [MarketSet -> PriceOrNone]
    /\ s_cur \in [MarketSet -> PriceOrNone]
    /\ s_out = <<>>

\* Lines 283-291 and 310 for one product.
Summarise ==
    /\ s_pc = "input"
    /\ s_pc' = "output"
    /\ LET summary == build_product_summary(s_cur, s_prev)
       IN  s_out' = [changed |-> DetectChanged(s_cur, s_prev),
                     raised |-> summary.raised,
                     biggest_drop |-> summary.biggest_drop,
                     cheapest |-> summary.cheapest]
    /\ UNCHANGED <<s_prev, s_cur, runVars>>

SummaryNext == Summarise

SummarySpec == SummaryInit /\ [][SummaryNext]_vars

----------------------------------------------------------------------------
(* Properties *)

\* The change test as the specification tabulates it.
ExpectedChange(prevp, curp) ==
    CASE prevp = None /\ curp # None               -> TRUE
      [] prevp # None /\ curp # None /\ prevp # curp -> TRUE
      [] OTHER                                       -> FALSE

\* The previous prices the current run compares product a against: the
\* record the previous run left in previous_prices.json.
StoredPrev(a) == PrevInfos(load_json(startPrevFile), a)

ChangedInRun(a) ==
    /\ a \in DOMAIN infos
    /\ \E mc \in MarketSet : ExpectedChange(StoredPrev(a)[mc], infos[a][mc])

DroppedInRun(a) ==
    \E mc \in MarketSet :
        StoredPrev(a)[mc] # None /\ infos[a][mc] # None /\ infos[a][mc] < StoredPrev(a)[mc]

RoseInRun(a) ==
    \E mc \in MarketSet :
        StoredPrev(a)[mc] # None /\ infos[a][mc] # None /\ infos[a][mc] > StoredPrev(a)[mc]

DiffersInRun(a) == DroppedInRun(a) \/ RoseInRun(a)

Payloads == {sent[i] : i \in 1..Len(sent)}

ItemsOf(payload) == {payload.items[j] : j \in 1..Len(payload.items)}

\* C1: a fetch that fails never keeps the run from processing every product
\* and reaching the save step: a run in which some fetched price is absent
\* is never aborted before the product loop has finished.
C1_FetchFailureNeverAborts ==
    (pc = "aborted" /\ \E a \in DOMAIN infos : \E mc \in MarketSet : infos[a][mc] = None)
        => idx > Len(PRODUCTS)

\* C2: when a run has ended, normally or by a failure, the two durable
\* documents are either both as they were when the run started or both
\* hold the fully staged state of all products.
C2_DurableStateAllOrNothing ==
    (pc \in {"done", "aborted"} /\ ~args.test) =>
        \/ prevFile = startPrevFile /\ histFile = startHistFile
        \/ /\ idx > Len(PRODUCTS)
           /\ prevFile = ValidFile(prev_all)
           /\ histFile = ValidFile(history)

\* C3: between runs, as long as no save has failed, the stored history of
\* every (product, market) is exactly the last min(k, HISTORY_KEEP) present
\* prices fetched for that pair, in the order they were fetched.
C3_HistoryIsLastObserved ==
    (BetweenRuns /\ ~ioFault) =>
        \A pr \in Pairs :
            HistEntry(load_json(histFile), pr[1])[pr[2]] = LastN(observed[pr], HISTORY_KEEP)

\* C4: the change test of a market is the tabulated one, and a product is
\* marked changed exactly when the test is true for one of its markets.
C4_ChangeTest ==
    /\ \A prevp \in PriceOrNone, curp \in PriceOrNone :
          ChangeTest(prevp, curp) = ExpectedChange(prevp, curp)
    /\ s_pc = "output" =>
          (s_out.changed <=> \E mc \in MarketSet : ExpectedChange(s_prev[mc], s_cur[mc]))

C4_Witness ==
    /\ s_pc = "output"
    /\ s_out.changed
    /\ \E mc \in MarketSet : s_prev[mc] # None /\ s_cur[mc] = None
    /\ \E mc \in MarketSet : s_prev[mc] = None /\ s_cur[mc] # None
    /\ \E mc \in MarketSet : s_prev[mc] # None /\ s_cur[mc] # None /\ s_prev[mc] # s_cur[mc]

\* C5: after a completed run previous_prices.json holds, for every product
\* and market, the price fetched in that run, changed or not; and every
\* change flag of a run is the change test of the new fetch against the
\* record the previous run left.
C5_SnapshotIsLatestFetch ==
    /\ (pc = "done" /\ ~args.test) =>
          /\ prevFile.st = "valid"
          /\ \A a \in ProductSet :
                a \in DOMAIN prevFile.data /\ a \in DOMAIN infos /\ prevFile.data[a] = infos[a]
    /\ \A a \in DOMAIN changed : changed[a] <=> ChangedInRun(a)
    /\ pc = "process" =>
          \A i \in idx..Len(PRODUCTS) :
              PrevInfos(prev_all, PRODUCTS[i]) = PrevInfos(load_json(prevFile), PRODUCTS[i])

C5_Witness ==
    /\ pc = "done"
    /\ ~args.test
    /\ startPrevFile.st = "valid"
    /\ \E a \in ProductSet : ~changed[a] /\ infos[a]["sa"] # None
    /\ \E a \in ProductSet : changed[a] /\ prevFile.data[a] # StoredPrev(a)

\* C6: outside --test, every embed handed to the webhook names at least one
\* product and only products with a changed market in this run; when no
\* product changed nothing is handed over.
C6_OnlyChangedProductsSent ==
    ~args.test =>
        /\ \A payload \in Payloads :
              /\ payload.items # <<>>
              /\ \A a \in ItemsOf(payload) : ChangedInRun(a)
        /\ (\A a \in ProductSet : ~ChangedInRun(a)) => sent = <<>>

C6_Witness ==
    /\ pc = "done"
    /\ args.digest
    /\ Len(sent) = 1
    /\ Len(sent[1].items) = 1
    /\ \E a \in DOMAIN infos : ~ChangedInRun(a) /\ infos[a] # AllAbsent

\* C7: a save_json failure does not abort the run, and the embeds of the
\* changed products are still handed to the webhook.
C7_SaveFailureNotFatal ==
    /\ pc = "aborted" => error # "OSError"
    /\ (pc = "done" /\ ~args.test /\ updates # <<>>) => sent # <<>>

\* C8: the biggest drop returned by build_product_summary is absent when no
\* market dropped; otherwise it is a market that dropped, carries that
\* market's percent change, no dropped market has a more negative percent
\* change, and no dropped market earlier in MARKETS has the same one.
MarketIndex(mc) == CHOOSE i \in 1..Len(MARKETS) : MARKETS[i] = mc

SummaryDropped ==
    {mc \in MarketSet : s_cur[mc] # None /\ s_prev[mc] # None /\ s_cur[mc] < s_prev[mc]}

\* (new - old) / old * 100 of market a compared with that of market b
PercentLower(a, b) ==
    (s_cur[a] - s_prev[a]) * 100 * s_prev[b] < (s_cur[b] - s_prev[b]) * 100 * s_prev[a]

PercentEqual(a, b) ==
    (s_cur[a] - s_prev[a]) * 100 * s_prev[b] = (s_cur[b] - s_prev[b]) * 100 * s_prev[a]

C9_ThreeWayColor ==
    \A payload \in Payloads : payload.kind = "product" =>
        \A a \in ItemsOf(payload) :
            /\ DroppedInRun(a) => payload.color = ColorDrop
            /\ ~DiffersInRun(a) => payload.color = ColorNeutral
            /\ (RoseInRun(a) /\ ~DroppedInRun(a)) => payload.color \notin {ColorDrop, ColorNeutral}

\* C9 amended: the colour of a product's embed is the decrease signal when
\* a market dropped and the neutral signal in every other case; the colour
\* of the digest embed is the fixed digest colour whatever its items did.
C9_TwoWayColor ==
    \A payload \in Payloads :
        /\ payload.kind = "product" =>
              \A a \in ItemsOf(payload) :
                  payload.color = IF DroppedInRun(a) THEN ColorDrop ELSE ColorNeutral
        /\ payload.kind = "digest" => payload.color = ColorDigest

C9_Witness ==
    /\ pc = "done"
    /\ \E payload \in Payloads :
          /\ payload.kind = "product"
          /\ payload.color = ColorNeutral
          /\ \E a \in ItemsOf(payload) : RoseInRun(a) /\ ~DroppedInRun(a)
    /\ \E payload \in Payloads :
          /\ payload.kind = "product"
          /\ payload.color = ColorDrop
          /\ \E a \in ItemsOf(payload) : DroppedInRun(a)

\* C10: whenever an embed has been handed to the webhook in a run, both
\* documents already hold the staged state of that run; and a product whose
\* embed failed to deliver in a completed run, and for which each run since
\* has fetched the same prices, is not marked changed and is in no embed of
\* this run.
C10_FailedDeliveryNeverRetried ==
    /\ (\E payload \in Payloads : payload.kind # "test") =>
          /\ pc \in {"send", "done"}
          /\ prevFile = ValidFile(prev_all)
          /\ histFile = ValidFile(history)
    /\ \A a \in DOMAIN undelivered :
          (a \in DOMAIN infos /\ infos[a] = undelivered[a]) =>
              /\ ~changed[a]
              /\ \A payload \in Payloads : a \notin ItemsOf(payload)

C10_Witness ==
    /\ pc = "done"
    /\ ~args.test
    /\ sent # <<>>
    /\ \E a \in DOMAIN undelivered :
          /\ a \in DOMAIN infos
          /\ infos[a] = undelivered[a]
          /\ infos[a] # AllAbsent

====
